---- MODULE Spec2Model ----
(***************************************************************************)
(* Model of the submodular diversity selection of jina-mcp:                *)
(*   src/src/utils/submodular-optimization.ts  (cosineSimilarity,          *)
(*   computeMarginalGainDiversity, lazyGreedySelection,                    *)
(*   lazyGreedySelectionWithSaturation)                                    *)
(* of the deduplicate_strings and deduplicate_images tool handlers that    *)
(* call it                                                                 *)
(*   src/unnamed/part_002 (registerJinaTools),                             *)
(* and of the parallel search helper                                       *)
(*   src/unnamed/part_000 (executeParallelSearches).                       *)
(*                                                                         *)
(* Numbers.  The code computes in IEEE doubles.  The model computes in     *)
(* fixed point with unit 1 / Scale and rounds where the code rounds:       *)
(* Math.sqrt is rounded to the nearest unit and the quotient               *)
(* dotProduct / (sqrt * sqrt) is cut to a whole unit, so that, as in       *)
(* doubles, the similarity of a vector with itself is 1.0 for some vectors *)
(* ([1,0]) and one unit off for others ([2,1]: 0.9999999999999998 in       *)
(* doubles).  A coverage entry and a marginal gain use the same unit; an   *)
(* objective value (sum / n) is kept in units of 1 / (Scale * ValueDenom)  *)
(* and the division by n is cut to a whole such unit, so that, as in       *)
(* doubles, 1/3, 2/3 and 1 are not evenly spaced.                          *)
(* Array indices are 0-based as in the code; `selected`, `values` and `pq` *)
(* are sequences (positions 1..Len).                                       *)
(***************************************************************************)
EXTENDS Integers, Sequences, FiniteSets, TLC

\* ------------------------------------------------------------------ bounds
MaxN == 3
Scale == 100
MaxClock == 3

\* The vectors an embedding is drawn from: the unit axes, a skewed
\* direction, an opposite direction, the zero vector and a vector of
\* another dimension.
Vectors ==
    { <<1, 0>>, <<0, 1>>, <<2, 1>>, <<-1, 0>>, <<0, 0>>, <<1>> }

\* The vectors the embeddings service answers with in a tool request.
ServiceVectors == { <<1, 0>>, <<0, 1>>, <<2, 1>> }

\* An objective value (sum / n) keeps ValueDenom steps below the unit
\* 1 / Scale; the division by n is cut to a whole step, as the division of
\* doubles is rounded to a double.
ValueDenom == 16

\* threshold: number = 1e-2, in value units
DefaultThreshold == (Scale * ValueDenom) \div 100

\* Thresholds a direct caller passes: negative, zero, the default, 0.5, 2.0
Thresholds ==
    { 0 - DefaultThreshold, 0, DefaultThreshold,
      (Scale * ValueDenom) \div 2, 2 * Scale * ValueDenom }

\* ------------------------------------------------------------ optional values
\* k?: number and earlyStopK: number | null are modelled as sequences of
\* length 0 (undefined / null) or 1.
None == << >>
Some(x) == << x >>
IsSome(o) == Len(o) = 1
Get(o) == o[1]

VARIABLES
    caller,            \* "lib": a direct call of a selection function;
                       \* "tool": deduplicate_strings; "images": deduplicate_images
    prior,             \* the earlier calls of this caller and what they returned
    pc,                \* position of the call
    hasToken,          \* props.bearerToken is set
    nStrings,          \* strings.length (images.length) of the tool request
    kArg,              \* k (optional for the tool)
    fn,                \* "fixed" = lazyGreedySelection, "sat" = ...WithSaturation, "none"
    embeddings,        \* [0..n-1 -> Vectors]
    threshold,
    similarityMatrix,
    currentCoverage,
    pq,
    selected,
    remaining,
    values,
    earlyStopK,
    iteration,
    fetched,           \* the tool issued its request to the embeddings service
    result,            \* return value of the selection function
    response,          \* response of the tool
    searches,          \* executeParallelSearches: state of each search promise
    timeoutOpt,        \* options.timeout, in ticks of the clock
    clock,             \* ticks elapsed since executeParallelSearches was called
    timerDue,          \* due time of the setTimeout of timeoutPromise (None or Some)
    spc,               \* position of executeParallelSearches
    completedResults   \* what executeParallelSearches returned

vars == << caller, prior, pc, hasToken, nStrings, kArg, fn, embeddings, threshold,
           similarityMatrix, currentCoverage, pq, selected, remaining,
           values, earlyStopK, iteration, fetched, result, response,
           searches, timeoutOpt, clock, timerDue, spc, completedResults >>

search == << searches, timeoutOpt, clock, timerDue, spc, completedResults >>

session == << similarityMatrix, currentCoverage, pq, selected, remaining,
              values, earlyStopK, iteration >>

\* ------------------------------------------------------------ pure functions
RECURSIVE DotUpTo(_, _, _)
DotUpTo(a, b, i) ==
    IF i = 0 THEN 0 ELSE DotUpTo(a, b, i - 1) + a[i] * b[i]

\* the largest r in lo..hi with r * r <= y (lo * lo <= y < (hi + 1) * (hi + 1))
RECURSIVE FloorSqrt(_, _, _)
FloorSqrt(lo, hi, y) ==
    IF lo >= hi THEN lo
    ELSE LET mid == (lo + hi + 1) \div 2
         IN  IF mid * mid <= y THEN FloorSqrt(mid, hi, y)
             ELSE FloorSqrt(lo, mid - 1, y)

\* Math.sqrt(x) in units of 1 / Scale, rounded to the nearest unit
MathSqrt(x) ==
    (FloorSqrt(0, 2 * Scale * x, 4 * Scale * Scale * x) + 1) \div 2

\* mutation of Quotient: the dot product is divided by the first norm alone
QuotientByFirstNorm(d, sa, sb) == (d * Scale * Scale * Scale) \div (sa * sa)

\* d / (sa * sb) in units of 1 / Scale for d >= 0, cut to a whole unit
Quotient(d, sa, sb) == (d * Scale * Scale * Scale) \div (sa * sb)

\* mutation of cosineSimilarity: vectors of different lengths are compared
\* over the components they share
cosineSimilarityTruncating(a, b) ==
    LET len == IF Len(a) < Len(b) THEN Len(a) ELSE Len(b)
        dotProduct == DotUpTo(a, b, len)
        normA == DotUpTo(a, a, len)
        normB == DotUpTo(b, b, len)
    IN  IF normA = 0 \/ normB = 0 THEN 0
        ELSE IF dotProduct >= 0
             THEN Quotient(dotProduct, MathSqrt(normA), MathSqrt(normB))
             ELSE 0 - Quotient(0 - dotProduct, MathSqrt(normA), MathSqrt(normB))

cosineSimilarity(a, b) ==
    IF Len(a) # Len(b) THEN 0
    ELSE LET dotProduct == DotUpTo(a, b, Len(a))
             normA == DotUpTo(a, a, Len(a))
             normB == DotUpTo(b, b, Len(a))
         IN  IF normA = 0 \/ normB = 0 THEN 0
             ELSE IF dotProduct >= 0
                  THEN Quotient(dotProduct, MathSqrt(normA), MathSqrt(normB))
                  ELSE 0 - Quotient(0 - dotProduct, MathSqrt(normA), MathSqrt(normB))

\* mutation of ClampedSimilarity: the similarity is stored as computed
ClampedSimilarityRaw(a, b) == cosineSimilarity(a, b)

\* similarityMatrix[i][j] = sim > 0 ? sim : 0
ClampedSimilarity(a, b) ==
    LET sim == cosineSimilarity(a, b) IN IF sim > 0 THEN sim ELSE 0

BuildSimilarityMatrix(emb, n) ==
    [i \in 0..(n - 1) |-> [j \in 0..(n - 1) |-> ClampedSimilarity(emb[i], emb[j])]]

RECURSIVE GainUpTo(_, _, _)
GainUpTo(row, coverage, m) ==
    IF m = 0 THEN 0
    ELSE LET i == m - 1
             newCoverage == IF row[i] > coverage[i] THEN row[i] ELSE coverage[i]
         IN  GainUpTo(row, coverage, m - 1) + (newCoverage - coverage[i])

computeMarginalGainDiversity(newIdx, coverage, matrix) ==
    GainUpTo(matrix[newIdx], coverage, Cardinality(DOMAIN matrix))

\* mutation of InsertStable: an entry is placed before the entries of equal key
InsertBeforeEqual(sorted, e) ==
    LET before == { p \in 1..Len(sorted) : sorted[p][1] < e[1] }
        m == Cardinality(before)
    IN  SubSeq(sorted, 1, m) \o << e >> \o SubSeq(sorted, m + 1, Len(sorted))

\* pq.sort((a, b) => a[0] - b[0]): a stable sort on the negated gain
InsertStable(sorted, e) ==
    LET before == { p \in 1..Len(sorted) : sorted[p][1] <= e[1] }
        m == Cardinality(before)
    IN  SubSeq(sorted, 1, m) \o << e >> \o SubSeq(sorted, m + 1, Len(sorted))

RECURSIVE SortPQ(_)
SortPQ(q) ==
    IF Len(q) <= 1 THEN q
    ELSE InsertStable(SortPQ(SubSeq(q, 1, Len(q) - 1)), q[Len(q)])

\* for (i = 0; i < n; i++) pq.push([-gain, 0, i])
RECURSIVE InitialEntries(_, _, _)
InitialEntries(m, coverage, matrix) ==
    IF m = 0 THEN << >>
    ELSE Append(InitialEntries(m - 1, coverage, matrix),
                << 0 - computeMarginalGainDiversity(m - 1, coverage, matrix), 0, m - 1 >>)

\* mutation of UpdateCoverage: the row overwrites the coverage
UpdateCoverageOverwrite(coverage, row) ==
    [i \in DOMAIN coverage |-> row[i]]

\* if (row[i] > currentCoverage[i]) currentCoverage[i] = row[i]
UpdateCoverage(coverage, row) ==
    [i \in DOMAIN coverage |-> IF row[i] > coverage[i] THEN row[i] ELSE coverage[i]]

RECURSIVE SumUpTo(_, _)
SumUpTo(coverage, m) ==
    IF m = 0 THEN 0 ELSE SumUpTo(coverage, m - 1) + coverage[m - 1]

\* mutation of FunctionValue: the sum is not divided by n
FunctionValueSum(coverage, n) ==
    SumUpTo(coverage, n) * ValueDenom

\* currentCoverage.reduce((sum, val) => sum + val, 0) / n
FunctionValue(coverage, n) ==
    (SumUpTo(coverage, n) * ValueDenom) \div n

\* Array.from({ length: n }, (_, i) => i)
AllIndices(n) == [p \in 1..n |-> p - 1]

\* mutation of FreshCoverage: a coverage vector of the right length that an
\* earlier call left behind is taken over
FreshCoverageReused(n) ==
    IF DOMAIN currentCoverage = 0..(n - 1) /\ n > 0 THEN currentCoverage
    ELSE [i \in 0..(n - 1) |-> 0]

\* new Array(n).fill(0)
FreshCoverage(n) == [i \in 0..(n - 1) |-> 0]

\* mutation of RefreshedEntry: the epoch of the initial entries is pushed
RefreshedEntryEpochZero(currentGain, iter, bestIdx) == << 0 - currentGain, 0, bestIdx >>

\* pq.push([-currentGain, iteration, bestIdx])
RefreshedEntry(currentGain, iter, bestIdx) == << 0 - currentGain, iter, bestIdx >>

\* mutation of IsFresh: an entry computed in an earlier iteration is accepted
IsFreshOrStale(lastUpdated, iter) == lastUpdated <= iter

\* if (lastUpdated === iteration)
IsFresh(lastUpdated, iter) == lastUpdated = iter

\* ------------------------------------------------------------------- Init
EmptySession ==
    /\ similarityMatrix = << >>
    /\ currentCoverage = << >>
    /\ pq = << >>
    /\ selected = << >>
    /\ remaining = {}
    /\ values = << >>
    /\ earlyStopK = None
    /\ iteration = 0

NoResponse == [isError |-> FALSE, kind |-> "none", content |-> << >>]

\* executeParallelSearches has not been called
NoSearch ==
    /\ searches = << >>
    /\ timeoutOpt = 0
    /\ clock = 0
    /\ timerDue = None
    /\ spc = "idle"
    /\ completedResults = << >>

EmbeddingSets == UNION { [0..(m - 1) -> Vectors] : m \in 0..MaxN }

ServiceEmbeddingSets == UNION { [0..(m - 1) -> ServiceVectors] : m \in 0..MaxN }

\* Arguments of a direct call: a k for lazyGreedySelection or a threshold
\* for lazyGreedySelectionWithSaturation.
LibArgs ==
    { [fn |-> "fixed", kArg |-> Some(x), threshold |-> DefaultThreshold] :
          x \in (0 - 1)..(MaxN + 1) }
    \cup { [fn |-> "sat", kArg |-> None, threshold |-> t] : t \in Thresholds }

\* direct calls of the exported selection functions
LibRequests ==
    { [caller |-> "lib", pc |-> "call", hasToken |-> TRUE, embeddings |-> e,
       fn |-> a.fn, kArg |-> a.kArg, threshold |-> a.threshold] :
          e \in EmbeddingSets, a \in LibArgs }

\* requests to a deduplicate tool; `embeddings` is what the service would
\* answer for the strings (images) of the request, one vector per item
ToolRequests(tool) ==
    { [caller |-> tool, pc |-> "tool", hasToken |-> h, embeddings |-> e,
       fn |-> "none", kArg |-> k, threshold |-> DefaultThreshold] :
          h \in BOOLEAN, e \in ServiceEmbeddingSets,
          k \in { None } \cup { Some(x) : x \in (0 - 1)..(MaxN + 1) } }

IsRequest(r) ==
    /\ caller = r.caller
    /\ pc = r.pc
    /\ hasToken = r.hasToken
    /\ embeddings = r.embeddings
    /\ nStrings = Cardinality(DOMAIN r.embeddings)
    /\ fn = r.fn
    /\ kArg = r.kArg
    /\ threshold = r.threshold

InitLib == \E r \in LibRequests : IsRequest(r)

InitTool == \E r \in ToolRequests("tool") : IsRequest(r)

\* a deduplicate_images request
InitImages == \E r \in ToolRequests("images") : IsRequest(r)

Init ==
    /\ (InitLib \/ InitTool \/ InitImages)
    /\ NoSearch
    /\ prior = << >>
    /\ EmptySession
    /\ fetched = FALSE
    /\ result = << >>
    /\ response = NoResponse

\* ------------------------------------------------- deduplicate_strings (tool)
N == Cardinality(DOMAIN embeddings)

\* mutation of NoStrings: the empty list is let through
NoStringsNeverEmpty(len) == len < 0

\* if (strings.length === 0) throw new Error("No strings provided ...")
NoStrings(len) == len = 0

\* mutation of InvalidK: the upper limit is not checked
InvalidKNoUpperLimit(k, len) == IsSome(k) /\ Get(k) <= 0

\* if (k !== undefined && (k <= 0 || k > strings.length)) throw ...
InvalidK(k, len) == IsSome(k) /\ (Get(k) <= 0 \/ Get(k) > len)

ErrorResponse(kind) == [isError |-> TRUE, kind |-> kind, content |-> << >>]

\* The handler up to its await: token check, parameter checks, then the
\* request to the embeddings service is issued.
ToolValidate ==
    /\ pc = "tool"
    /\ caller = "tool"
    /\ IF ~hasToken
       THEN /\ response' = ErrorResponse("token")
            /\ pc' = "done"
            /\ fetched' = fetched
       ELSE IF NoStrings(nStrings)
       THEN /\ response' = ErrorResponse("no_strings")
            /\ pc' = "done"
            /\ fetched' = fetched
       ELSE IF InvalidK(kArg, nStrings)
       THEN /\ response' = ErrorResponse("invalid_k")
            /\ pc' = "done"
            /\ fetched' = fetched
       ELSE /\ response' = response
            /\ pc' = "fetch"
            /\ fetched' = TRUE
    /\ UNCHANGED << search, caller, prior, hasToken, nStrings, kArg, fn, embeddings,
                    threshold, session, result >>

\* The handler after the await.  The service answers with an HTTP error,
\* with a body without a data array, or with one embedding per input.
ToolResume ==
    /\ pc = "fetch"
    /\ caller = "tool"
    /\ \E outcome \in { "http_error", "bad_format", "ok" } :
         IF outcome = "http_error"
         THEN /\ response' = ErrorResponse("api")
              /\ pc' = "done"
              /\ fn' = fn
         ELSE IF outcome = "bad_format"
         THEN /\ response' = ErrorResponse("bad_format")
              /\ pc' = "done"
              /\ fn' = fn
         ELSE /\ response' = response
              /\ pc' = "call"
              /\ fn' = IF IsSome(kArg) THEN "fixed" ELSE "sat"
    /\ UNCHANGED << search, caller, prior, hasToken, nStrings, kArg, embeddings, threshold,
                    session, fetched, result >>

\* selectedIndices.map(...) and the content items of the response
ToolRespond ==
    /\ pc = "returned"
    /\ caller = "tool"
    /\ LET selectedIndices == IF fn = "fixed" THEN result ELSE result.selected
       IN  response' = [isError |-> FALSE, kind |-> "result",
                        content |-> selectedIndices]
    /\ pc' = "done"
    /\ UNCHANGED << search, caller, prior, hasToken, nStrings, kArg, fn, embeddings,
                    threshold, session, fetched, result >>

\* -------------------------------------------------- deduplicate_images (tool)
\* mutation of ImgNoImages: the empty list is let through
ImgNoImagesNeverEmpty(len) == len < 0

\* if (images.length === 0) throw new Error("No images provided ...")
ImgNoImages(len) == len = 0

\* mutation of ImgInvalidK: only k <= 0 is refused
ImgInvalidKNoUpperLimit(k, len) == IsSome(k) /\ Get(k) <= 0

\* if (k !== undefined && (k <= 0 || k > images.length)) throw ...
ImgInvalidK(k, len) == IsSome(k) /\ (Get(k) <= 0 \/ Get(k) > len)

\* The handler up to its first await: token check, parameter checks, then
\* the request to the embeddings service is issued.
ImgValidate ==
    /\ pc = "tool"
    /\ caller = "images"
    /\ IF ~hasToken
       THEN /\ response' = ErrorResponse("token")
            /\ pc' = "done"
            /\ fetched' = fetched
       ELSE IF ImgNoImages(nStrings)
       THEN /\ response' = ErrorResponse("no_strings")
            /\ pc' = "done"
            /\ fetched' = fetched
       ELSE IF ImgInvalidK(kArg, nStrings)
       THEN /\ response' = ErrorResponse("invalid_k")
            /\ pc' = "done"
            /\ fetched' = fetched
       ELSE /\ response' = response
            /\ pc' = "fetch"
            /\ fetched' = TRUE
    /\ UNCHANGED << search, caller, prior, hasToken, nStrings, kArg, fn, embeddings,
                    threshold, session, result >>

\* The handler after the await of the embeddings request.
ImgResume ==
    /\ pc = "fetch"
    /\ caller = "images"
    /\ \E outcome \in { "http_error", "bad_format", "ok" } :
         IF outcome = "http_error"
         THEN /\ response' = ErrorResponse("api")
              /\ pc' = "done"
              /\ fn' = fn
         ELSE IF outcome = "bad_format"
         THEN /\ response' = ErrorResponse("bad_format")
              /\ pc' = "done"
              /\ fn' = fn
         ELSE /\ response' = response
              /\ pc' = "call"
              /\ fn' = IF IsSome(kArg) THEN "fixed" ELSE "sat"
    /\ UNCHANGED << search, caller, prior, hasToken, nStrings, kArg, embeddings, threshold,
                    session, fetched, result >>

\* The selected images are downloaded or passed on and become the content
\* items; a download that timed out before any image arrived leaves no
\* item and the handler throws "No images to return after deduplication".
ImgRespond ==
    /\ pc = "returned"
    /\ caller = "images"
    /\ LET selectedIndices == IF fn = "fixed" THEN result ELSE result.selected
       IN  \E outcome \in { "items", "nothing" } :
             IF outcome = "nothing" \/ selectedIndices = << >>
             THEN response' = ErrorResponse("no_images")
             ELSE response' = [isError |-> FALSE, kind |-> "result",
                               content |-> selectedIndices]
    /\ pc' = "done"
    /\ UNCHANGED << search, caller, prior, hasToken, nStrings, kArg, fn, embeddings,
                    threshold, session, fetched, result >>

\* ---------------------------------------------------- lazyGreedySelection
\* mutation of Recompute: the gain computation writes the new coverage into
\* the vector it was given
RecomputeInPlace(bestIdx, rest) ==
    \E currentGain \in
          { computeMarginalGainDiversity(bestIdx, currentCoverage, similarityMatrix) } :
        /\ pq' = SortPQ(Append(rest, RefreshedEntry(currentGain, iteration, bestIdx)))
        /\ currentCoverage' = UpdateCoverage(currentCoverage, similarityMatrix[bestIdx])
        /\ UNCHANGED similarityMatrix

\* mutation of Recompute: the stale entry is read but not removed
RecomputeWithoutPop(bestIdx, rest) ==
    \E currentGain \in
          { computeMarginalGainDiversity(bestIdx, currentCoverage, similarityMatrix) } :
        /\ pq' = SortPQ(Append(pq, RefreshedEntry(currentGain, iteration, bestIdx)))
        /\ UNCHANGED << similarityMatrix, currentCoverage >>

\* The stale branch of the while body: the gain is computed against the
\* current coverage and the entry is pushed again with the current epoch.
Recompute(bestIdx, rest) ==
    \E currentGain \in
          { computeMarginalGainDiversity(bestIdx, currentCoverage, similarityMatrix) } :
        /\ pq' = SortPQ(Append(rest, RefreshedEntry(currentGain, iteration, bestIdx)))
        /\ UNCHANGED << similarityMatrix, currentCoverage >>

\* mutation of ShortCircuit: k = n - 1 already returns all indices
ShortCircuitEarly(k, n) == k >= n - 1

\* mutation of ShortCircuit: k = n runs the loop
ShortCircuitStrict(k, n) == k > n

\* if (k >= n) return Array.from(...)
ShortCircuit(k, n) == k >= n

\* mutation of LGS_ForTest: one iteration too many
LGS_ForTestInclusive(iter, k) == iter <= k

\* for (...; iteration < k; ...)
LGS_ForTest(iter, k) == iter < k

\* Entry of lazyGreedySelection up to the first test of the for loop.
LGS_Call ==
    /\ pc = "call"
    /\ fn = "fixed"
    /\ LET n == N
           k == Get(kArg)
           matrix == BuildSimilarityMatrix(embeddings, n)
           zero == FreshCoverage(n)
       IN  IF ShortCircuit(k, n)
           THEN /\ result' = AllIndices(n)
                /\ pc' = "returned"
                /\ UNCHANGED session
           ELSE /\ selected' = << >>
                /\ remaining' = 0..(n - 1)
                /\ similarityMatrix' = matrix
                /\ currentCoverage' = zero
                /\ pq' = SortPQ(InitialEntries(n, zero, matrix))
                /\ iteration' = 0
                /\ UNCHANGED << values, earlyStopK >>
                /\ IF LGS_ForTest(0, k)
                   THEN pc' = "loop" /\ result' = result
                   ELSE pc' = "returned" /\ result' = << >>
    /\ UNCHANGED << search, caller, prior, hasToken, nStrings, kArg, fn, embeddings,
                    threshold, fetched, response >>

\* One pass of the while body of lazyGreedySelection (and the for increment
\* and test that follow a break or an empty queue).
LGS_Step ==
    /\ pc = "loop"
    /\ fn = "fixed"
    /\ LET n == N
           k == Get(kArg)
       IN  IF pq = << >>
           THEN /\ iteration' = iteration + 1
                /\ IF LGS_ForTest(iteration + 1, k)
                   THEN pc' = "loop" /\ result' = result
                   ELSE pc' = "returned" /\ result' = selected
                /\ UNCHANGED << similarityMatrix, currentCoverage, pq,
                                selected, remaining, values, earlyStopK >>
           ELSE LET lastUpdated == Head(pq)[2]
                    bestIdx == Head(pq)[3]
                    rest == Tail(pq)
                IN  IF bestIdx \notin remaining
                    THEN /\ pq' = rest
                         /\ UNCHANGED << similarityMatrix, currentCoverage,
                                         selected, remaining, values,
                                         earlyStopK, iteration, pc, result >>
                    ELSE IF IsFresh(lastUpdated, iteration)
                    THEN /\ pq' = rest
                         /\ selected' = Append(selected, bestIdx)
                         /\ remaining' = remaining \ { bestIdx }
                         /\ currentCoverage' =
                                UpdateCoverage(currentCoverage, similarityMatrix[bestIdx])
                         /\ iteration' = iteration + 1
                         /\ IF LGS_ForTest(iteration + 1, k)
                            THEN pc' = "loop" /\ result' = result
                            ELSE pc' = "returned" /\ result' = selected'
                         /\ UNCHANGED << similarityMatrix, values, earlyStopK >>
                    ELSE /\ Recompute(bestIdx, rest)
                         /\ UNCHANGED << selected, remaining, values,
                                         earlyStopK, iteration, pc, result >>
    /\ UNCHANGED << search, caller, prior, hasToken, nStrings, kArg, fn, embeddings,
                    threshold, fetched, response >>

\* -------------------------------------- lazyGreedySelectionWithSaturation
\* const delta = values[last] - values[last - 1]
LastDelta(vals) == vals[Len(vals)] - vals[Len(vals) - 1]

\* mutation of DetectEarlyStop: a delta equal to the threshold stops the loop
DetectEarlyStopInclusive(vals, thr, previous) ==
    IF Len(vals) >= 2 /\ LastDelta(vals) <= thr THEN Some(Len(vals)) ELSE previous

\* mutation of DetectEarlyStop: the test starts one value late
DetectEarlyStopLate(vals, thr, previous) ==
    IF Len(vals) >= 3 /\ LastDelta(vals) < thr THEN Some(Len(vals)) ELSE previous

\* mutation of DetectEarlyStop: the item whose delta fell below the threshold
\* is not counted
DetectEarlyStopExcluding(vals, thr, previous) ==
    IF Len(vals) >= 2 /\ LastDelta(vals) < thr THEN Some(Len(vals) - 1) ELSE previous

\* if (values.length >= 2) { if (delta < threshold) earlyStopK = values.length }
DetectEarlyStop(vals, thr, previous) ==
    IF Len(vals) >= 2 /\ LastDelta(vals) < thr THEN Some(Len(vals)) ELSE previous

\* mutation of ChooseOptimalK: the fallback is the last 0-based position
ChooseOptimalKZeroBased(early, vals) ==
    IF IsSome(early) THEN Get(early) ELSE Len(vals) - 1

\* const optimalK = earlyStopK ?? values.length
ChooseOptimalK(early, vals) == IF IsSome(early) THEN Get(early) ELSE Len(vals)

\* selected.slice(0, optimalK)
Slice0(seq, m) == SubSeq(seq, 1, IF m < Len(seq) THEN m ELSE Len(seq))

SaturationResult(sel, early, vals) ==
    LET optimalK == ChooseOptimalK(early, vals)
    IN  [selected |-> Slice0(sel, optimalK), optimalK |-> optimalK, values |-> vals]

\* for (...; iteration < n; ...)
WS_ForTest(iter, n) == iter < n

\* Entry of lazyGreedySelectionWithSaturation up to the first for test.
WS_Call ==
    /\ pc = "call"
    /\ fn = "sat"
    /\ LET n == N
           matrix == BuildSimilarityMatrix(embeddings, n)
           zero == FreshCoverage(n)
       IN  /\ selected' = << >>
           /\ remaining' = 0..(n - 1)
           /\ values' = << >>
           /\ similarityMatrix' = matrix
           /\ currentCoverage' = zero
           /\ pq' = SortPQ(InitialEntries(n, zero, matrix))
           /\ earlyStopK' = None
           /\ iteration' = 0
           /\ IF WS_ForTest(0, n)
              THEN pc' = "loop" /\ result' = result
              ELSE pc' = "returned" /\ result' = SaturationResult(<< >>, None, << >>)
    /\ UNCHANGED << search, caller, prior, hasToken, nStrings, kArg, fn, embeddings,
                    threshold, fetched, response >>

\* One pass of the while body of lazyGreedySelectionWithSaturation (and the
\* early-stop break, for increment and test that follow a break or an
\* empty queue, and the return once the loop is left).
WS_Step ==
    /\ pc = "loop"
    /\ fn = "sat"
    /\ LET n == N
       IN  IF pq = << >>
           THEN /\ IF IsSome(earlyStopK) \/ ~WS_ForTest(iteration + 1, n)
                   THEN /\ pc' = "returned"
                        /\ result' = SaturationResult(selected, earlyStopK, values)
                        /\ iteration' = IF IsSome(earlyStopK) THEN iteration
                                        ELSE iteration + 1
                   ELSE /\ pc' = "loop"
                        /\ result' = result
                        /\ iteration' = iteration + 1
                /\ UNCHANGED << similarityMatrix, currentCoverage, pq,
                                selected, remaining, values, earlyStopK >>
           ELSE LET lastUpdated == Head(pq)[2]
                    bestIdx == Head(pq)[3]
                    rest == Tail(pq)
                IN  IF bestIdx \notin remaining
                    THEN /\ pq' = rest
                         /\ UNCHANGED << similarityMatrix, currentCoverage,
                                         selected, remaining, values,
                                         earlyStopK, iteration, pc, result >>
                    ELSE IF IsFresh(lastUpdated, iteration)
                    THEN /\ pq' = rest
                         /\ selected' = Append(selected, bestIdx)
                         /\ remaining' = remaining \ { bestIdx }
                         /\ currentCoverage' =
                                UpdateCoverage(currentCoverage, similarityMatrix[bestIdx])
                         /\ values' = Append(values, FunctionValue(currentCoverage', n))
                         /\ earlyStopK' = DetectEarlyStop(values', threshold, earlyStopK)
                         /\ IF IsSome(earlyStopK') \/ ~WS_ForTest(iteration + 1, n)
                            THEN /\ pc' = "returned"
                                 /\ result' = SaturationResult(selected', earlyStopK', values')
                                 /\ iteration' = IF IsSome(earlyStopK') THEN iteration
                                                 ELSE iteration + 1
                            ELSE /\ pc' = "loop"
                                 /\ result' = result
                                 /\ iteration' = iteration + 1
                         /\ UNCHANGED similarityMatrix
                    ELSE /\ Recompute(bestIdx, rest)
                         /\ UNCHANGED << selected, remaining, values,
                                         earlyStopK, iteration, pc, result >>
    /\ UNCHANGED << search, caller, prior, hasToken, nStrings, kArg, fn, embeddings,
                    threshold, fetched, response >>

\* ------------------------------------------------------------------- Spec
Next ==
    \/ ToolValidate
    \/ ToolResume
    \/ ToolRespond
    \/ ImgValidate
    \/ ImgResume
    \/ ImgRespond
    \/ LGS_Call
    \/ LGS_Step
    \/ WS_Call
    \/ WS_Step

Spec == Init /\ [][Next]_vars

\* The selection functions are synchronous: once the loop of a call has
\* been entered the thread keeps running it, so a pass of a loop body that
\* can be taken is eventually taken.  Nothing is assumed of the handlers.
FairSpec == Init /\ [][Next]_vars /\ WF_vars(LGS_Step \/ WS_Step)

\* ------------------------------------------------ two calls in a row
\* Arguments of a direct call: a k for lazyGreedySelection or a threshold
\* for lazyGreedySelectionWithSaturation.
PairThresholds == { 0, DefaultThreshold, 2 * Scale * ValueDenom }

CallArgs ==
    { [fn |-> "fixed", kArg |-> Some(x), threshold |-> DefaultThreshold] :
          x \in 0..MaxN }
    \cup { [fn |-> "sat", kArg |-> None, threshold |-> t] : t \in PairThresholds }

InitPair ==
    /\ caller = "lib"
    /\ pc = "call"
    /\ hasToken = TRUE
    /\ embeddings \in ServiceEmbeddingSets
    /\ nStrings = Cardinality(DOMAIN embeddings)
    /\ \E a \in CallArgs :
          fn = a.fn /\ kArg = a.kArg /\ threshold = a.threshold
    /\ NoSearch
    /\ prior = << >>
    /\ EmptySession
    /\ fetched = FALSE
    /\ result = << >>
    /\ response = NoResponse

\* the call that has just returned, as the caller sees it
FinishedCall ==
    [fn |-> fn, kArg |-> kArg, threshold |-> threshold,
     embeddings |-> embeddings, result |-> result]

\* the caller's array in the opposite order
Reversed(emb) ==
    LET n == Cardinality(DOMAIN emb) IN [i \in 0..(n - 1) |-> emb[n - 1 - i]]

\* The caller keeps the returned value and calls one of the exported
\* functions again, on the same embeddings or on another array.  Nothing
\* of the module is reset in between: the locals of the finished call are
\* simply dead.
Recall ==
    /\ pc = "returned"
    /\ caller = "lib"
    /\ Len(prior) = 0
    /\ prior' = Append(prior, FinishedCall)
    /\ \E a \in CallArgs :
          fn' = a.fn /\ kArg' = a.kArg /\ threshold' = a.threshold
    /\ embeddings' \in { embeddings, Reversed(embeddings) }
    /\ pc' = "call"
    /\ result' = << >>
    /\ UNCHANGED << search, caller, hasToken, nStrings, session, fetched, response >>

\* The caller repeats the call that has just returned, with equal arguments.
Repeat ==
    /\ pc = "returned"
    /\ caller = "lib"
    /\ Len(prior) = 1
    /\ prior' = Append(prior, FinishedCall)
    /\ pc' = "call"
    /\ result' = << >>
    /\ UNCHANGED << search, caller, hasToken, nStrings, kArg, fn, embeddings, threshold,
                    session, fetched, response >>

NextPair ==
    \/ LGS_Call
    \/ LGS_Step
    \/ WS_Call
    \/ WS_Step
    \/ Recall
    \/ Repeat

PairSpec == InitPair /\ [][NextPair]_vars

\* ------------------------------------------- executeParallelSearches
\* The variables of the selection and of the tools while only
\* executeParallelSearches runs.
selection == << caller, prior, pc, hasToken, nStrings, kArg, fn, embeddings,
                threshold, session, fetched, result, response >>

\* options.timeout values a caller passes, in ticks
Timeouts == { 1, 2 }

\* searches.map(async ...) has started every search; the function is at
\* await Promise.allSettled(searchPromises).
InitSearch ==
    /\ caller = "search"
    /\ pc = "idle"
    /\ hasToken = TRUE
    /\ embeddings = << >>
    /\ nStrings = 0
    /\ fn = "none"
    /\ kArg = None
    /\ threshold = DefaultThreshold
    /\ prior = << >>
    /\ EmptySession
    /\ fetched = FALSE
    /\ result = << >>
    /\ response = NoResponse
    /\ \E m \in 0..MaxN : searches = [i \in 1..m |-> "pending"]
    /\ timeoutOpt \in Timeouts
    /\ clock = 0
    /\ timerDue = None
    /\ spc = "allSettled"
    /\ completedResults = << >>

Unsettled == { i \in 1..Len(searches) : searches[i] = "pending" }

\* A search promise settles: searchFunction resolved with results or with
\* an error object, or it threw and the catch of the wrapper made an error
\* object of it.  The wrapper never rejects.
SearchSettles ==
    /\ spc = "allSettled"
    /\ \E i \in Unsettled, outcome \in { "results", "error" } :
          searches' = [searches EXCEPT ![i] = outcome]
    /\ UNCHANGED << timeoutOpt, clock, timerDue, spc, completedResults, selection >>

\* Time passes while the function is suspended at its await.
Tick ==
    /\ spc = "allSettled"
    /\ clock < MaxClock
    /\ clock' = clock + 1
    /\ UNCHANGED << searches, timeoutOpt, timerDue, spc, completedResults, selection >>

\* Promise.race([Promise.all(values), timeoutPromise]): the values are the
\* settled results, so Promise.all resolves in the microtasks of the
\* current task, while the callback of setTimeout needs a later task.
RaceWinner == "results"

\* The function resumes once every search promise has settled: only now the
\* timer is set, the race is run and the function returns or throws.
SearchResume ==
    /\ spc = "allSettled"
    /\ Unsettled = {}
    /\ timerDue' = Some(clock + timeoutOpt)
    /\ IF RaceWinner = "timeout"
       THEN spc' = "thrown" /\ completedResults' = completedResults
       ELSE spc' = "returned" /\ completedResults' = searches
    /\ UNCHANGED << searches, timeoutOpt, clock, selection >>

NextSearch ==
    \/ SearchSettles
    \/ Tick
    \/ SearchResume

SearchSpec == InitSearch /\ [][NextSearch]_vars

\* ----------------------------------------------------------- properties
Returned == pc \in { "returned", "done" } /\ fn # "none"

\* An item was selected by this step of either loop.
Accepts == pc = "loop" /\ Len(selected') = Len(selected) + 1

TrueGain(i) == computeMarginalGainDiversity(i, currentCoverage, similarityMatrix)

\* C1: whenever a loop of lazyGreedySelection or of
\* lazyGreedySelectionWithSaturation accepts an item, the true marginal gain
\* of that item against the coverage just before the acceptance is at least
\* the true marginal gain of every other item that is still unselected.
C1_AcceptedGainIsMaximal ==
    [][ Accepts =>
          LET bestIdx == selected'[Len(selected')]
          IN  \A j \in remaining : TrueGain(bestIdx) >= TrueGain(j) ]_vars

\* A second or later acceptance of the fixed-k loop has happened while the
\* queue still holds an entry that was not recomputed in that iteration.
C1_Witness ==
    /\ fn = "fixed"
    /\ pc \in { "loop", "returned" }
    /\ Len(selected) >= 2
    /\ \E p \in 1..Len(pq) : pq[p][2] < iteration - 1 /\ pq[p][3] \in remaining

IsDistinct(seq) == \A p, q \in 1..Len(seq) : p # q => seq[p] # seq[q]

\* C2: for 1 <= k < n, lazyGreedySelection returns exactly k pairwise
\* distinct indices, each in 0..n-1.
C2_FixedKReturnsKDistinct ==
    (Returned /\ fn = "fixed" /\ 1 <= Get(kArg) /\ Get(kArg) < N) =>
        /\ Len(result) = Get(kArg)
        /\ IsDistinct(result)
        /\ \A p \in 1..Len(result) : result[p] \in 0..(N - 1)

C2_Witness ==
    /\ Returned /\ fn = "fixed" /\ caller = "lib"
    /\ Get(kArg) = 2 /\ N = 3
    /\ Len(result) = 2 /\ result[1] > result[2]

\* C3: for k >= n, lazyGreedySelection returns the indices 0..n-1, each
\* once, in ascending order.
C3_FullSelectionInIndexOrder ==
    (Returned /\ fn = "fixed" /\ Get(kArg) >= N) =>
        /\ Len(result) = N
        /\ \A p \in 1..N : result[p] = p - 1

\* k = n over a set whose greedy order is not the index order
C3_Witness ==
    /\ Returned /\ fn = "fixed" /\ N = 3 /\ Get(kArg) = 3
    /\ Len(result) = 3
    /\ embeddings[0] = << 1, 0 >> /\ embeddings[1] = << 0, 1 >>
    /\ embeddings[2] = << 2, 1 >>

\* the delta at selection count t is below the threshold
Crossing(v, t) == t \in 2..Len(v) /\ v[t] - v[t - 1] < threshold

\* C4: in the result of lazyGreedySelectionWithSaturation, optimalK is the
\* first count t >= 2 whose delta values[t-1] - values[t-2] (0-based) is
\* below the threshold and nothing is accepted after it; every delta before
\* optimalK is >= threshold; without a crossing optimalK = n.
C4_OptimalKIsFirstCrossing ==
    (Returned /\ fn = "sat" /\ N >= 1) =>
        LET v == result.values
            optimalK == result.optimalK
        IN  /\ \A t \in 2..Len(v) : t < optimalK => v[t] - v[t - 1] >= threshold
            /\ (\E t \in 2..Len(v) : Crossing(v, t)) =>
                   /\ Crossing(v, optimalK)
                   /\ \A t \in 2..Len(v) : Crossing(v, t) => t >= optimalK
                   /\ Len(v) = optimalK
                   /\ Len(selected) = optimalK
            /\ ~(\E t \in 2..Len(v) : Crossing(v, t)) => optimalK = N

\* a crossing at the third selection after a delta that was not below
C4_Witness ==
    /\ Returned /\ fn = "sat" /\ IsSome(earlyStopK)
    /\ result.optimalK = 3
    /\ result.values[2] - result.values[1] >= threshold
    /\ threshold > 0

\* C5: for a non-empty embedding set and any threshold, the optimalK
\* returned by lazyGreedySelectionWithSaturation is in 1..n.
C5_OptimalKInRange ==
    (Returned /\ fn = "sat" /\ N >= 1) =>
        (1 <= result.optimalK /\ result.optimalK <= N)

C5_Witness ==
    /\ Returned /\ fn = "sat" /\ N = 3 /\ result.optimalK = 2
    /\ threshold = 2 * Scale * ValueDenom

\* all embeddings are the same vector, and it is not a zero vector
AllSameNonzero ==
    /\ N >= 1
    /\ \A i \in 0..(N - 1) : embeddings[i] = embeddings[0]
    /\ \E c \in 1..Len(embeddings[0]) : embeddings[0][c] # 0

\* C6 as stated: with all embeddings the same nonzero vector and the default
\* threshold, lazyGreedySelectionWithSaturation returns optimalK = 1.
C6_Original ==
    (Returned /\ fn = "sat" /\ AllSameNonzero /\ threshold = DefaultThreshold) =>
        result.optimalK = 1

\* C6 (amended): with all embeddings the same nonzero vector and the default
\* threshold, lazyGreedySelectionWithSaturation returns optimalK = 1 when
\* n = 1 and optimalK = 2 when n >= 2.
C6_IdenticalVectorsOptimalK ==
    (Returned /\ fn = "sat" /\ AllSameNonzero /\ threshold = DefaultThreshold) =>
        result.optimalK = (IF N = 1 THEN 1 ELSE 2)

C6_Witness ==
    /\ Returned /\ fn = "sat" /\ AllSameNonzero /\ threshold = DefaultThreshold
    /\ N = 3 /\ result.optimalK = 2

\* C7: the objective trajectory of lazyGreedySelectionWithSaturation is
\* non-decreasing, at every point of the run and in the result.
C7_TrajectoryNonDecreasing ==
    /\ \A t \in 2..Len(values) : values[t] >= values[t - 1]
    /\ (Returned /\ fn = "sat") =>
           \A t \in 2..Len(result.values) :
               result.values[t] >= result.values[t - 1]

C7_Witness ==
    /\ Returned /\ fn = "sat"
    /\ Len(result.values) = 3
    /\ result.values[2] > result.values[1]
    /\ result.values[3] > result.values[2]

\* C8: in both loops an acceptance leaves every coverage entry at least as
\* large as before, and a step that is not an acceptance (a pop, a
\* recomputation and re-push) leaves the coverage vector unchanged.
C8_CoverageMonotone ==
    [][ pc = "loop" =>
          /\ \A j \in 0..(N - 1) : currentCoverage'[j] >= currentCoverage[j]
          /\ (currentCoverage' # currentCoverage => Accepts) ]_vars

\* the second acceptance raised an entry that the first one had covered
\* partly, and another entry stayed as it was
C8_Witness ==
    /\ fn = "sat"
    /\ Len(selected) = 2
    /\ \E j \in 0..(N - 1) :
          /\ similarityMatrix[selected[1]][j] > 0
          /\ currentCoverage[j] > similarityMatrix[selected[1]][j]
    /\ \E j \in 0..(N - 1) :
          currentCoverage[j] > similarityMatrix[selected[2]][j]

KOutOfRange == IsSome(kArg) /\ (Get(kArg) <= 0 \/ Get(kArg) > nStrings)

IsTool == caller \in { "tool", "images" }

\* the response is the rejection of an empty list or of a k outside 1..n
ParameterRejection == response.kind \in { "no_strings", "invalid_k" }

\* C11: in deduplicate_strings and deduplicate_images an empty list or a k
\* outside 1..n ends in an error response while no request to the
\* embeddings service has been issued and no selection function has been
\* entered; once the request was issued or the selection was entered the
\* call does not end in a parameter rejection.
C11_RejectionBeforeFetchAndLoop ==
    IsTool =>
        /\ (nStrings = 0 \/ KOutOfRange) =>
              /\ ~fetched /\ fn = "none" /\ pc \in { "tool", "done" }
              /\ pc = "done" =>
                    (response.isError /\ (hasToken => ParameterRejection))
        /\ (fetched \/ fn # "none") => ~ParameterRejection

C11_Witness ==
    /\ caller = "images" /\ pc = "done" /\ hasToken
    /\ nStrings = 2 /\ kArg = Some(0)
    /\ response.kind = "invalid_k" /\ ~fetched /\ fn = "none"

\* number of queue entries of unselected items computed before this iteration
StaleCount ==
    Cardinality({ p \in 1..Len(pq) : pq[p][3] \in remaining /\ pq[p][2] # iteration })

\* C12: under fair scheduling the loop of every call of lazyGreedySelection
\* and of lazyGreedySelectionWithSaturation is left; the loop counter never
\* exceeds n, and inside an iteration every pass of the while body that
\* does not accept an item turns one stale entry into a fresh one, so an
\* item is recomputed at most once before an acceptance.
C12_Terminates ==
    /\ (pc = "loop") ~> (pc = "returned")
    /\ [](pc = "loop" => iteration < N)
    /\ [][ (pc = "loop" /\ ~Accepts) =>
             (StaleCount' = StaleCount - 1 /\ iteration' = iteration) ]_vars

\* lazyGreedySelection returned after its second iteration had recomputed
\* and pushed back the item that stays unselected
C12_Witness ==
    /\ fn = "fixed" /\ pc = "returned" /\ N = 3 /\ Get(kArg) = 2
    /\ Len(selected) = 2 /\ iteration = 2
    /\ Len(pq) = 1 /\ pq[1][2] = 1

\* gain of item i against the empty coverage, as pushed before the loop
InitialGain(i) == computeMarginalGainDiversity(i, FreshCoverage(N), similarityMatrix)

\* C13 as stated: at every acceptance the accepted item has the smallest
\* index among the unselected items of largest true marginal gain.
C13_Original ==
    [][ Accepts =>
          LET bestIdx == selected'[Len(selected')]
          IN  \A j \in remaining :
                 TrueGain(j) = TrueGain(bestIdx) => bestIdx <= j ]_vars

\* C13: ties are resolved by the order of the queue.  The accepted item is
\* the head of the queue and no entry of the queue has a smaller key; at
\* the first iteration, where the stable sort leaves entries of equal key
\* in index order, the accepted item has the smallest index among the
\* items of largest gain.
C13_TieBreakByQueueOrder ==
    [][ Accepts =>
          LET bestIdx == selected'[Len(selected')]
          IN  /\ bestIdx = Head(pq)[3]
              /\ \A p \in 1..Len(pq) : Head(pq)[1] <= pq[p][1]
              /\ iteration = 0 =>
                    \A j \in remaining :
                       TrueGain(j) = TrueGain(bestIdx) => bestIdx <= j ]_vars

\* Items 0 and 2 tied at the first iteration and 0 was accepted; at the
\* second iteration 2 was accepted although item 1 is still unselected.
C13_Witness ==
    /\ N = 3 /\ Len(selected) = 2
    /\ selected[1] = 0 /\ selected[2] = 2
    /\ InitialGain(0) = InitialGain(2)
    /\ 1 \in remaining

IsZeroVector(v) == \A c \in 1..Len(v) : v[c] = 0

\* the embeddings fall into groups of identical nonzero vectors and vectors
\* of different groups have similarity 0
OrthogonalGroups ==
    /\ \A i \in 0..(N - 1) : ~IsZeroVector(embeddings[i])
    /\ \A i, j \in 0..(N - 1) :
          \/ embeddings[i] = embeddings[j]
          \/ cosineSimilarity(embeddings[i], embeddings[j]) = 0

GroupCount == Cardinality({ embeddings[i] : i \in 0..(N - 1) })

\* C14: over m groups of identical nonzero vectors that are orthogonal to
\* each other, lazyGreedySelection with k = m < n returns m indices, exactly
\* one of each group.
C14_OnePerGroup ==
    (Returned /\ fn = "fixed" /\ OrthogonalGroups
       /\ Get(kArg) = GroupCount /\ GroupCount < N) =>
        /\ Len(result) = GroupCount
        /\ \A i \in 0..(N - 1) :
              Cardinality({ p \in 1..Len(result) :
                              embeddings[result[p]] = embeddings[i] }) = 1

\* [[1,0],[1,0],[0,1]] with k = 2 returned one of {0, 1} and index 2
C14_Witness ==
    /\ Returned /\ fn = "fixed" /\ N = 3 /\ Get(kArg) = 2
    /\ embeddings[0] = << 1, 0 >> /\ embeddings[1] = << 1, 0 >>
    /\ embeddings[2] = << 0, 1 >>
    /\ Len(result) = 2
    /\ 2 \in { result[p] : p \in 1..Len(result) }

SelfSimilarity == cosineSimilarity(embeddings[0], embeddings[0])

C16_ResultLengthsAgree ==
    (Returned /\ fn = "sat") =>
        /\ Len(result.selected) = result.optimalK
        /\ Len(result.values) = result.optimalK
        /\ IsDistinct(result.selected)
        /\ result.selected = SubSeq(selected, 1, result.optimalK)

\* an early stop after the second of three items
C16_Witness ==
    /\ Returned /\ fn = "sat" /\ N = 3
    /\ IsSome(earlyStopK)
    /\ result.optimalK = 2 /\ Len(result.selected) = 2 /\ Len(result.values) = 2

\* the selection of the fixed-size call f is the prefix of the selection
\* of the saturation call s over the same embeddings
PrefixOf(f, s) ==
    (/\ f.fn = "fixed" /\ s.fn = "sat"
     /\ f.embeddings = s.embeddings
     /\ 1 <= Get(f.kArg)
     /\ Get(f.kArg) < Cardinality(DOMAIN f.embeddings)
     /\ Get(f.kArg) <= s.result.optimalK) =>
        f.result = SubSeq(s.result.selected, 1, Get(f.kArg))

\* C17: for every embedding set, threshold and k with 1 <= k < n and
\* k <= optimalK, lazyGreedySelection(embeddings, k) is the sequence of the
\* first k entries of lazyGreedySelectionWithSaturation(embeddings,
\* threshold).selected, whichever of the two is called first.
C17_FixedIsPrefixOfSaturation ==
    pc = "returned" =>
        \A p \in 1..Len(prior) :
            /\ PrefixOf(prior[p], FinishedCall)
            /\ PrefixOf(FinishedCall, prior[p])

\* lazyGreedySelection with k = 2 returned, then the saturation policy
\* returned at least two of the three items in a greedy order that is not
\* the index order
C17_Witness ==
    /\ pc = "returned" /\ fn = "sat" /\ N = 3
    /\ Len(prior) = 1 /\ prior[1].fn = "fixed" /\ Get(prior[1].kArg) = 2
    /\ prior[1].embeddings = embeddings
    /\ result.optimalK >= 2
    /\ prior[1].result = SubSeq(result.selected, 1, 2)
    /\ result.selected[1] # 0

\* C18: the result of a call depends only on its arguments: whatever calls
\* came before, a call returns what every earlier call with equal arguments
\* returned.
C18_NoStateSurvives ==
    pc = "returned" =>
        \A p \in 1..Len(prior) :
            (/\ prior[p].fn = fn /\ prior[p].kArg = kArg
             /\ prior[p].threshold = threshold
             /\ prior[p].embeddings = embeddings) =>
                prior[p].result = result

\* the third call repeats the second after a first call with another
\* policy over the reversed array, and the loop ran in each of them
C18_Witness ==
    /\ pc = "returned" /\ Len(prior) = 2 /\ N = 3
    /\ prior[1].fn # prior[2].fn
    /\ prior[1].embeddings # prior[2].embeddings
    /\ prior[2].fn = fn /\ prior[2].embeddings = embeddings
    /\ Len(selected) >= 2
    /\ prior[2].result = result

\* C19: no step of a selection call changes the caller's embeddings; a pass
\* of a loop body that only recomputes a gain leaves the coverage vector
\* unchanged, no pass changes the similarity matrix, and the gains pushed
\* before the loop leave the coverage all zero and the matrix as built.
C19_InputsUnchanged ==
    [][ /\ pc \in { "call", "loop" } => embeddings' = embeddings
        /\ pc = "loop" => similarityMatrix' = similarityMatrix
        /\ (pc = "loop" /\ ~Accepts) => currentCoverage' = currentCoverage
        /\ (pc = "call" /\ pc' = "loop") =>
              /\ currentCoverage' = FreshCoverage(N)
              /\ similarityMatrix' = BuildSimilarityMatrix(embeddings, N) ]_vars

\* in a second or later iteration an unselected item was recomputed with a
\* positive gain and pushed back
C19_Witness ==
    /\ pc = "loop" /\ iteration >= 1
    /\ \E p \in 1..Len(pq) :
          /\ pq[p][2] = iteration
          /\ pq[p][3] \in remaining
          /\ pq[p][1] < 0

\* vectors whose similarity the code defines as 0
Degenerate(a, b) == Len(a) # Len(b) \/ IsZeroVector(a) \/ IsZeroVector(b)

HasDegeneratePair ==
    \E i, j \in 0..(N - 1) : i # j /\ Degenerate(embeddings[i], embeddings[j])

\* C20: cosineSimilarity is 0 for two vectors of different lengths and for
\* a zero vector, so is the entry of the similarity matrix, and a selection
\* over such embeddings returns a result of the regular shape.
C20_DegenerateSimilarityIsZero ==
    /\ \A i, j \in 0..(N - 1) :
          Degenerate(embeddings[i], embeddings[j]) =>
              /\ cosineSimilarity(embeddings[i], embeddings[j]) = 0
              /\ similarityMatrix # << >> => similarityMatrix[i][j] = 0
    /\ (Returned /\ HasDegeneratePair) =>
          IF fn = "fixed"
          THEN /\ Get(kArg) \in 1..N => Len(result) = Get(kArg)
               /\ IsDistinct(result)
          ELSE /\ result.optimalK \in 1..N
               /\ Len(result.selected) = result.optimalK
               /\ IsDistinct(result.selected)

\* the saturation policy returned over [[1],[0,0],[1,0]]: a vector of
\* another length and a zero vector
C20_Witness ==
    /\ pc = "returned" /\ fn = "sat" /\ N = 3
    /\ embeddings[0] = << 1 >> /\ embeddings[1] = << 0, 0 >>
    /\ embeddings[2] = << 1, 0 >>
    /\ similarityMatrix[0][2] = 0 /\ similarityMatrix[1][2] = 0
    /\ Len(result.selected) = result.optimalK

\* C21: cosineSimilarity(a, b) = cosineSimilarity(b, a) for vectors of equal
\* length, and the similarity matrix of a call is symmetric.
C21_SimilaritySymmetric ==
    /\ \A i, j \in 0..(N - 1) :
          Len(embeddings[i]) = Len(embeddings[j]) =>
              cosineSimilarity(embeddings[i], embeddings[j])
                  = cosineSimilarity(embeddings[j], embeddings[i])
    /\ similarityMatrix # << >> =>
          \A i, j \in 0..(N - 1) : similarityMatrix[i][j] = similarityMatrix[j][i]

\* a matrix was built over two vectors of different norms that are neither
\* parallel nor orthogonal
C21_Witness ==
    /\ pc = "loop" /\ N >= 2
    /\ embeddings[0] = << 1, 0 >> /\ embeddings[1] = << 2, 1 >>
    /\ similarityMatrix[0][1] = similarityMatrix[1][0]
    /\ similarityMatrix[0][1] \notin { 0, Scale }

\* C22: every entry of the similarity matrix is max(0, cosineSimilarity),
\* so no entry is negative; every coverage entry, every stored gain and
\* every true marginal gain is non-negative.
C22_NothingNegative ==
    similarityMatrix # << >> =>
        /\ \A i, j \in 0..(N - 1) :
              LET sim == cosineSimilarity(embeddings[i], embeddings[j])
              IN  /\ similarityMatrix[i][j] = IF sim > 0 THEN sim ELSE 0
                  /\ similarityMatrix[i][j] >= 0
        /\ \A i \in 0..(N - 1) : currentCoverage[i] >= 0 /\ TrueGain(i) >= 0
        /\ \A p \in 1..Len(pq) : pq[p][1] <= 0

\* an item was accepted over embeddings with two opposite vectors, whose
\* negative similarity is stored as 0
C22_Witness ==
    /\ N >= 2 /\ Len(selected) >= 1
    /\ cosineSimilarity(embeddings[0], embeddings[1]) < 0
    /\ similarityMatrix[0][1] = 0

\* the largest entry of column j over the rows of the items in sel; 0 for none
RECURSIVE BestSimilarity(_, _)
BestSimilarity(sel, j) ==
    IF sel = << >> THEN 0
    ELSE LET before == BestSimilarity(SubSeq(sel, 1, Len(sel) - 1), j)
             last == similarityMatrix[sel[Len(sel)]][j]
         IN  IF last > before THEN last ELSE before

\* C24: after any number of acceptances currentCoverage[j] is the maximum
\* of similarityMatrix[s][j] over the selected items s, and 0 while nothing
\* is selected.
C24_CoverageIsMaxOverSelected ==
    similarityMatrix # << >> =>
        \A j \in 0..(N - 1) : currentCoverage[j] = BestSimilarity(selected, j)

\* two items were accepted and the second raised the coverage of a column
\* the first had already covered in part
C24_Witness ==
    /\ Len(selected) = 2 /\ N = 3
    /\ \E j \in 0..2 :
          /\ similarityMatrix[selected[1]][j] > 0
          /\ similarityMatrix[selected[2]][j] > similarityMatrix[selected[1]][j]
          /\ currentCoverage[j] = similarityMatrix[selected[2]][j]
    /\ \E j \in 0..2 :
          similarityMatrix[selected[1]][j] > similarityMatrix[selected[2]][j]

\* C25: in the loop every queue entry of an unselected item stores at least
\* the item's true marginal gain against the current coverage, an entry
\* whose epoch is the current iteration stores exactly the true gain, and
\* an acceptance takes the head entry only when its epoch is the current
\* iteration.
C25_StoredGainBoundsTrueGain ==
    /\ [](pc = "loop" =>
            \A p \in 1..Len(pq) :
                pq[p][3] \in remaining =>
                    /\ 0 - pq[p][1] >= TrueGain(pq[p][3])
                    /\ pq[p][2] = iteration => 0 - pq[p][1] = TrueGain(pq[p][3]))
    /\ [][ Accepts =>
             /\ Head(pq)[2] = iteration
             /\ Head(pq)[3] = selected'[Len(selected')] ]_vars

\* in a second or later iteration the queue holds a stale entry whose
\* stored gain is strictly above the true gain next to a fresh entry
C25_Witness ==
    /\ pc = "loop" /\ iteration >= 1
    /\ \E p, q \in 1..Len(pq) :
          /\ pq[p][3] \in remaining /\ pq[p][2] < iteration
          /\ 0 - pq[p][1] > TrueGain(pq[p][3])
          /\ pq[q][3] \in remaining /\ pq[q][2] = iteration

\* the items that have an entry in the queue
Queued == { pq[p][3] : p \in 1..Len(pq) }

\* C27: once the queue is built it holds exactly one entry for each
\* unselected item and none for a selected item; when a pass of a loop body
\* begins the queue is not empty and its head is an unselected item, so
\* the discarding branch and the empty-queue exit are never taken.
C27_QueueMatchesRemaining ==
    /\ similarityMatrix # << >> =>
          /\ Queued = remaining
          /\ Len(pq) = Cardinality(remaining)
          /\ remaining \cap { selected[p] : p \in 1..Len(selected) } = {}
    /\ pc = "loop" =>
          /\ pq # << >>
          /\ Head(pq)[3] \in remaining

\* an item was recomputed and pushed back in the second iteration while
\* one item is selected and two are queued
C27_Witness ==
    /\ pc = "loop" /\ N = 3 /\ iteration = 1
    /\ Len(selected) = 1 /\ Len(pq) = 2
    /\ \E p \in 1..Len(pq) : pq[p][2] = 1

\* C28: over two or more embeddings lazyGreedySelectionWithSaturation
\* returns optimalK >= 2 and at least two selected items, whatever the
\* threshold.
C28_NeverStopsAfterOne ==
    (Returned /\ fn = "sat" /\ N >= 2) =>
        /\ result.optimalK >= 2
        /\ Len(result.selected) >= 2

\* with the threshold 2.0 the loop stopped at the second value and kept
\* both items
C28_Witness ==
    /\ pc = "returned" /\ fn = "sat" /\ N = 3
    /\ threshold = 2 * Scale * ValueDenom
    /\ result.optimalK = 2 /\ Len(result.selected) = 2
    /\ earlyStopK = Some(2)

\* the selection of the fixed-size call a is a prefix of that of the
\* fixed-size call b over the same embeddings with a larger k below n
NestedIn(a, b) ==
    (/\ a.fn = "fixed" /\ b.fn = "fixed"
     /\ a.embeddings = b.embeddings
     /\ 1 <= Get(a.kArg)
     /\ Get(a.kArg) < Get(b.kArg)
     /\ Get(b.kArg) < Cardinality(DOMAIN b.embeddings)) =>
        /\ Len(a.result) = Get(a.kArg)
        /\ a.result = SubSeq(b.result, 1, Get(a.kArg))

\* C30: for 1 <= k < k' < n, lazyGreedySelection(embeddings, k) is a prefix
\* of lazyGreedySelection(embeddings, k'), whichever is called first.
C30_FixedSelectionsNested ==
    pc = "returned" =>
        \A p \in 1..Len(prior) :
            /\ NestedIn(prior[p], FinishedCall)
            /\ NestedIn(FinishedCall, prior[p])

\* k = 1 then k = 2 over three embeddings whose greedy order is not the
\* index order
C30_Witness ==
    /\ pc = "returned" /\ fn = "fixed" /\ N = 3 /\ Get(kArg) = 2
    /\ Len(prior) = 1 /\ prior[1].fn = "fixed" /\ Get(prior[1].kArg) = 1
    /\ prior[1].embeddings = embeddings
    /\ Len(result) = 2 /\ result[1] # 0
    /\ prior[1].result = << result[1] >>

\* x / n in value units, rounded as the division of the code rounds
RoundedDiv(x, n) == x \div n

\* the facility-location objective before the division by n
CoverageSum(coverage) == SumUpTo(coverage, N)

PreviousGain ==
    LET earlier == SubSeq(selected, 1, Len(selected) - 1)
        before == [j \in 0..(N - 1) |-> BestSimilarity(earlier, j)]
    IN  computeMarginalGainDiversity(selected[Len(selected)], before, similarityMatrix)

\* C29 as stated: the deltas between consecutive values of the trajectory
\* never increase from one step to the next.
C29_Original ==
    \A t \in 3..Len(values) :
        values[t] - values[t - 1] <= values[t - 1] - values[t - 2]

\* C29: in both loops the true marginal gain of an accepted item is at most
\* the gain the item accepted before it had at its acceptance; a delta of
\* the trajectory exceeds the delta before it by at most one step of the
\* rounding of the division by n.
C29_GainsNonIncreasing ==
    /\ [][ (Accepts /\ Len(selected) >= 1) =>
             TrueGain(selected'[Len(selected')]) <= PreviousGain ]_vars
    /\ [](\A t \in 3..Len(values) :
             values[t] - values[t - 1] <= values[t - 1] - values[t - 2] + 1)

\* three mutually orthogonal embeddings: equal gains, values 1/3, 2/3, 1.0
\* and a last delta one step above the delta before it
C29_Witness ==
    /\ fn = "sat" /\ N = 3 /\ Len(values) = 3
    /\ \A i, j \in 0..2 : similarityMatrix[i][j] = IF i = j THEN Scale ELSE 0
    /\ values[3] - values[2] = values[2] - values[1] + 1

\* C23 as stated: when the timeout has elapsed and a search has not
\* completed, executeParallelSearches has failed with the 'Parallel search
\* timed out' error.
C23_TimeoutEnforced ==
    (clock >= timeoutOpt /\ Unsettled # {}) => spc = "thrown"

====
